---- MODULE Spec2Model ----
(***************************************************************************)
(* Model of the DDL validator.                                             *)
(*                                                                         *)
(*   src/DDL_VALIDATOR.py     extract_table_definitions + analyze_tables   *)
(*   src/ddl_validator_v2.py  SQLSchemaAnalyzer (parse_schema, analyze)    *)
(*                                                                         *)
(* Texts are TLA+ strings and the regular expressions of the source are    *)
(* evaluated character by character, so that what a pattern captures is    *)
(* computed and not assumed.                                               *)
(***************************************************************************)
EXTENDS Integers, Sequences, FiniteSets, TLC

VARIABLES
    declared,     \* the table declarations the input text was written from
    ddl_content,  \* DDL_VALIDATOR.py: the text handed to extract_table_definitions
    pc,           \* where main() is: "extract", "analyze", "done" ("idle": not run)
    pos,          \* table_pattern.finditer: where the next search starts
    tables,       \* the dict `tables`, in insertion order
    tidx,         \* analyze_tables: index of the next table of tables.items()
    report,       \* the list `report`
    sql_schema,   \* ddl_validator_v2.py: the text handed to analyze_sql_schema
    pc2,          \* where analyze_sql_schema is: "split", "parse", "analyze", "done"
    statements,   \* parse_schema: the list `statements`
    sidx,         \* parse_schema: index of the next statement
    self_tables,  \* SQLSchemaAnalyzer.tables, in insertion order
    aidx,         \* analyze: index of the next table of self.tables.items()
    self_errors   \* SQLSchemaAnalyzer.errors

v1vars == <<ddl_content, pc, pos, tables, tidx, report>>
v2vars == <<sql_schema, pc2, statements, sidx, self_tables, aidx, self_errors>>
vars == <<declared, v1vars, v2vars>>

(***************************************************************************)
(* Characters and strings (Python str, re).                                *)
(***************************************************************************)
LowerLetters == "abcdefghijklmnopqrstuvwxyz"
UpperLetters == "ABCDEFGHIJKLMNOPQRSTUVWXYZ"
Digits == "0123456789"

CharsOf(s) == {SubSeq(s, i, i) : i \in 1..Len(s)}

\* \w of re (the ASCII part of it)
WordChars == CharsOf(LowerLetters) \cup CharsOf(UpperLetters) \cup CharsOf(Digits) \cup {"_"}
\* The texts are ASCII.  The control characters Python counts as whitespace
\* besides \t \n \r \f: vertical tab (0x0B) and the separators FS, GS, RS,
\* US (0x1C to 0x1F), written here as the characters themselves.
VerticalTab == ""
SeparatorChars == ""
\* \s of re, and the characters str.strip() and str.split() remove
SpaceChars == {" ", "\t", "\n", "\r", "\f", VerticalTab} \cup CharsOf(SeparatorChars)
\* [\w\(\)] of column_pattern
TypeChars == WordChars \cup {"(", ")"}

At(s, i) == IF i >= 1 /\ i <= Len(s) THEN SubSeq(s, i, i) ELSE ""

\* The least and the greatest element of a set of positions, 0 for none.
FirstOf(S) == IF S = {} THEN 0 ELSE CHOOSE k \in S : \A j \in S : k <= j
LastOf(S) == IF S = {} THEN 0 ELSE CHOOSE k \in S : \A j \in S : k >= j

\* The end of the longest run of characters of `set` that starts at i: the
\* first position at or after i whose character is not in `set`.
SkipSet(s, i, set) ==
    LET stop == FirstOf({j \in i..Len(s) : SubSeq(s, j, j) \notin set})
    IN IF stop # 0 THEN stop ELSE IF i > Len(s) THEN i ELSE Len(s) + 1

StartsWithAt(s, i, lit) ==
    /\ i >= 1
    /\ i + Len(lit) - 1 <= Len(s)
    /\ SubSeq(s, i, i + Len(lit) - 1) = lit

\* str.find from a position: the first index at or after `from` where lit
\* occurs, 0 when there is none.
Find(s, lit, from) ==
    FirstOf({k \in from..(Len(s) - Len(lit) + 1) : SubSeq(s, k, k + Len(lit) - 1) = lit})

\* `lit in s`
Contains(s, lit) == Find(s, lit, 1) # 0

UpperChar(c) ==
    LET k == Find(LowerLetters, c, 1)
    IN IF k = 0 THEN c ELSE SubSeq(UpperLetters, k, k)

LowerChar(c) ==
    LET k == Find(UpperLetters, c, 1)
    IN IF k = 0 THEN c ELSE SubSeq(LowerLetters, k, k)

\* str.upper() of s[lo..hi], by halves
RECURSIVE UpperRange(_, _, _)
UpperRange(s, lo, hi) ==
    IF lo > hi THEN ""
    ELSE IF lo = hi THEN UpperChar(SubSeq(s, lo, lo))
    ELSE LET mid == (lo + hi) \div 2
         IN UpperRange(s, lo, mid) \o UpperRange(s, mid + 1, hi)
Upper(s) == UpperRange(s, 1, Len(s))

\* str.lower() of s[lo..hi], by halves
RECURSIVE LowerRange(_, _, _)
LowerRange(s, lo, hi) ==
    IF lo > hi THEN ""
    ELSE IF lo = hi THEN LowerChar(SubSeq(s, lo, lo))
    ELSE LET mid == (lo + hi) \div 2
         IN LowerRange(s, lo, mid) \o LowerRange(s, mid + 1, hi)
Lower(s) == LowerRange(s, 1, Len(s))

\* str.strip()
Strip(s) ==
    LET lo == FirstOf({j \in 1..Len(s) : SubSeq(s, j, j) \notin SpaceChars})
        hi == LastOf({j \in 1..Len(s) : SubSeq(s, j, j) \notin SpaceChars})
    IN IF lo = 0 THEN "" ELSE SubSeq(s, lo, hi)

\* str.endswith
EndsWith(s, suffix) ==
    Len(s) >= Len(suffix) /\ SubSeq(s, Len(s) - Len(suffix) + 1, Len(s)) = suffix

\* ', '.join(seq)
RECURSIVE JoinFrom(_, _, _)
JoinFrom(seq, sep, i) ==
    IF i > Len(seq) THEN ""
    ELSE IF i = Len(seq) THEN seq[i]
    ELSE seq[i] \o sep \o JoinFrom(seq, sep, i + 1)
Join(seq, sep) == JoinFrom(seq, sep, 1)

(***************************************************************************)
(* extract_table_definitions: the four patterns.                           *)
(***************************************************************************)
NoTable == [ok |-> FALSE, name |-> "", body |-> "", end |-> 0]

\* table_pattern = CREATE TABLE\s+(\w+)\s*\((.*?)\); with re.S, tried at k,
\* a position where the literal CREATE TABLE starts.
TableMatchAt(s, k) ==
    LET s1 == k + Len("CREATE TABLE")
        n1 == SkipSet(s, s1, SpaceChars)
        n2 == SkipSet(s, n1, WordChars)
        b0 == SkipSet(s, n2, SpaceChars)
        e  == Find(s, ");", b0 + 1)
    IN IF n1 > s1 /\ n2 > n1 /\ At(s, b0) = "(" /\ e # 0
       THEN [ok |-> TRUE, name |-> SubSeq(s, n1, n2 - 1),
             body |-> SubSeq(s, b0 + 1, e - 1), end |-> e + 2]
       ELSE NoTable

\* The next match of table_pattern.finditer at or after `from`.
RECURSIVE TableSearch(_, _)
TableSearch(s, from) ==
    LET k == Find(s, "CREATE TABLE", from)
    IN IF k = 0 THEN NoTable
       ELSE LET m == TableMatchAt(s, k)
            IN IF m.ok THEN m ELSE TableSearch(s, k + 1)

NoColumn == [ok |-> FALSE, name |-> "", data_type |-> "", constraints |-> "", end |-> 0]

\* (.*?)(?:,|$) with re.S: the first position at or after i that holds a
\* comma, or is the end of the string, or holds the newline that ends it.
ConstraintEnd(s, i) ==
    LET q == FirstOf({j \in i..Len(s) :
                        \/ SubSeq(s, j, j) = ","
                        \/ (j = Len(s) /\ SubSeq(s, j, j) = "\n")})
    IN IF q # 0 THEN q ELSE Len(s) + 1

\* column_pattern = (\w+)\s+([\w\(\)]+)\s*(.*?)(?:,|$) with re.S: the next
\* match at or after p.  A start inside a word fails where the start of the
\* word failed, so a failed word is skipped whole.
RECURSIVE ColumnSearch(_, _)
ColumnSearch(sec, from) ==
    LET p == FirstOf({j \in from..Len(sec) : SubSeq(sec, j, j) \in WordChars})
    IN IF p = 0 THEN NoColumn
       ELSE LET e1 == SkipSet(sec, p, WordChars)
                e2 == SkipSet(sec, e1, SpaceChars)
                e3 == SkipSet(sec, e2, TypeChars)
                c0 == SkipSet(sec, e3, SpaceChars)
                q  == ConstraintEnd(sec, c0)
            IN IF e2 = e1 \/ e3 = e2 THEN ColumnSearch(sec, e1)
               ELSE [ok |-> TRUE,
                     name |-> SubSeq(sec, p, e1 - 1),
                     data_type |-> SubSeq(sec, e2, e3 - 1),
                     constraints |-> SubSeq(sec, c0, q - 1),
                     end |-> IF At(sec, q) = "," THEN q + 1 ELSE q]

NoGroup == [ok |-> FALSE, group |-> ""]

\* primary_key_pattern = PRIMARY KEY\s*\((.*?)\) (no re.S: . is not a
\* newline), as primary_key_pattern.search: the first match at or after p.
RECURSIVE PrimaryKeySearch(_, _)
PrimaryKeySearch(sec, p) ==
    LET k == Find(sec, "PRIMARY KEY", p)
    IN IF k = 0 THEN NoGroup
       ELSE LET i == SkipSet(sec, k + Len("PRIMARY KEY"), SpaceChars)
                e == Find(sec, ")", i + 1)
            IN IF At(sec, i) = "(" /\ e # 0 /\ ~Contains(SubSeq(sec, i + 1, e - 1), "\n")
               THEN [ok |-> TRUE, group |-> SubSeq(sec, i + 1, e - 1)]
               ELSE PrimaryKeySearch(sec, k + 1)

NoFk == [ok |-> FALSE, fk_column |-> "", referenced_table |-> "",
         referenced_column |-> "", end |-> 0]

\* foreign_key_pattern after FOREIGN KEY\s*\( at i: (.*?)\) tries each closing
\* parenthesis from c on, the nearest first, until the rest of the pattern,
\* \s*REFERENCES\s+(\w+)\s*\((.*?)\), matches behind it.
RECURSIVE FkTryClose(_, _, _)
FkTryClose(sec, i, from) ==
    LET c == Find(sec, ")", from)
    IN IF c = 0 \/ Contains(SubSeq(sec, i + 1, c - 1), "\n") THEN NoFk
       ELSE LET r  == SkipSet(sec, c + 1, SpaceChars)
                s1 == r + Len("REFERENCES")
                s2 == SkipSet(sec, s1, SpaceChars)
                w  == SkipSet(sec, s2, WordChars)
                p  == SkipSet(sec, w, SpaceChars)
                c2 == Find(sec, ")", p + 1)
            IN IF /\ StartsWithAt(sec, r, "REFERENCES")
                  /\ s2 > s1
                  /\ w > s2
                  /\ At(sec, p) = "("
                  /\ c2 # 0
                  /\ ~Contains(SubSeq(sec, p + 1, c2 - 1), "\n")
               THEN [ok |-> TRUE,
                     fk_column |-> SubSeq(sec, i + 1, c - 1),
                     referenced_table |-> SubSeq(sec, s2, w - 1),
                     referenced_column |-> SubSeq(sec, p + 1, c2 - 1),
                     end |-> c2 + 1]
               ELSE FkTryClose(sec, i, c + 1)

\* The next match of foreign_key_pattern.finditer at or after p.
RECURSIVE ForeignKeySearch(_, _)
ForeignKeySearch(sec, p) ==
    LET k == Find(sec, "FOREIGN KEY", p)
    IN IF k = 0 THEN NoFk
       ELSE LET i == SkipSet(sec, k + Len("FOREIGN KEY"), SpaceChars)
                m == IF At(sec, i) = "(" THEN FkTryClose(sec, i, i + 1) ELSE NoFk
            IN IF m.ok THEN m ELSE ForeignKeySearch(sec, k + 1)

(***************************************************************************)
(* extract_table_definitions: one table.  primary_key is <<>> for None and *)
(* <<name>> for a string.                                                  *)
(***************************************************************************)
\* One pass of the loop body over column_match (lines 31-44).
ColumnStep(acc, m) ==
    [columns |->
        IF Contains(m.constraints, "FOREIGN KEY") THEN acc.columns
        ELSE Append(acc.columns, [name |-> m.name, data_type |-> m.data_type,
                                  constraints |-> m.constraints]),
     primary_key |->
        IF Contains(m.constraints, "PRIMARY KEY") THEN <<m.name>> ELSE acc.primary_key]

\* for column_match in column_pattern.finditer(columns_section)
RECURSIVE ColumnLoop(_, _, _)
ColumnLoop(sec, p, acc) ==
    LET m == ColumnSearch(sec, p)
    IN IF ~m.ok THEN acc ELSE ColumnLoop(sec, m.end, ColumnStep(acc, m))

\* The table-level PRIMARY KEY(...) clause replaces the inline key.
TablePrimaryKey(sec, inline) ==
    LET m == PrimaryKeySearch(sec, 1)
    IN IF m.ok THEN <<Strip(m.group)>> ELSE inline

\* for foreign_key_match in foreign_key_pattern.finditer(columns_section)
RECURSIVE ForeignKeyLoop(_, _, _)
ForeignKeyLoop(sec, p, acc) ==
    LET m == ForeignKeySearch(sec, p)
    IN IF ~m.ok THEN acc
       ELSE ForeignKeyLoop(sec, m.end,
                Append(acc, <<Strip(m.fk_column), Strip(m.referenced_table),
                              Strip(m.referenced_column)>>))

\* The value stored under tables[table_name].
TableInfo(sec) ==
    LET cols == ColumnLoop(sec, 1, [columns |-> <<>>, primary_key |-> <<>>])
    IN [columns |-> cols.columns,
        primary_key |-> TablePrimaryKey(sec, cols.primary_key),
        foreign_keys |-> ForeignKeyLoop(sec, 1, <<>>)]

\* A dict as the sequence of its items: d[key] = value keeps the place of a
\* key that is already there and appends a new one.
DictKeys(d) == {d[i].key : i \in 1..Len(d)}
DictSet(d, key, value) ==
    IF key \in DictKeys(d)
    THEN [i \in 1..Len(d) |-> IF d[i].key = key THEN [key |-> key, value |-> value] ELSE d[i]]
    ELSE Append(d, [key |-> key, value |-> value])
DictGet(d, key) == (CHOOSE i \in 1..Len(d) : d[i].key = key)

\* extract_table_definitions as a whole (the loop over table matches).
RECURSIVE ExtractFrom(_, _, _)
ExtractFrom(s, p, acc) ==
    LET m == TableSearch(s, p)
    IN IF ~m.ok THEN acc
       ELSE ExtractFrom(s, m.end, DictSet(acc, m.name, TableInfo(m.body)))
extract_table_definitions(s) == ExtractFrom(s, 1, <<>>)

(***************************************************************************)
(* analyze_tables.  A finding is the pair (message, severity) of the       *)
(* source; `table` and `rule` record which table and which check of the    *)
(* loop body appended it (1 primary key, 2 foreign key targets, 3 implicit *)
(* relationships, 4 index coverage, 6 cardinality).                        *)
(***************************************************************************)
Finding(message, severity, table, rule) ==
    [message |-> message, severity |-> severity, table |-> table, rule |-> rule]

\* Python truth of primary_key: None and '' are false.
Truthy(primary_key) == primary_key # <<>> /\ primary_key[1] # ""

ColumnNames(info) == {info.columns[i].name : i \in 1..Len(info.columns)}
FkColumns(info) == {info.foreign_keys[i][1] : i \in 1..Len(info.foreign_keys)}

\* lines 71-72
MissingPkFindings(name, info) ==
    IF ~Truthy(info.primary_key)
    THEN <<Finding("Table '" \o name \o "' does not have a primary key defined.",
                   "error", name, 1)>>
    ELSE <<>>

\* line 75: the names that look like foreign keys
LooksLikeFk(col) ==
    \/ Contains(Lower(col.name), "id")
    \/ Contains(Lower(col.name), "fk")
    \/ Contains(Lower(col.name), "ref")

RECURSIVE NamesOf(_, _)
NamesOf(cols, i) ==
    IF i > Len(cols) THEN <<>> ELSE <<cols[i].name>> \o NamesOf(cols, i + 1)

\* lines 75-79
ImplicitFindings(name, info) ==
    LET possible_fks == NamesOf(SelectSeq(info.columns, LooksLikeFk), 1)
    IN IF possible_fks = <<>>
       THEN <<Finding("Table '" \o name \o "' has no foreign key relationships detected, explicit or implicit.",
                      "warning", name, 3)>>
       ELSE <<Finding("Table '" \o name \o "' has possible foreign key columns: "
                        \o Join(possible_fks, ", ")
                        \o " but no explicit foreign key constraint is defined.",
                      "warning", name, 3)>>

\* FkTargetFindings with a missing table reported as a warning.
FkTargetFindingsAsWarning(tbls, name, fk) ==
    IF fk[2] \notin DictKeys(tbls)
    THEN <<Finding("Foreign key column '" \o fk[1] \o "' in table '" \o name
                     \o "' references non-existent table '" \o fk[2] \o "'.",
                   "warning", name, 2)>>
    ELSE IF fk[3] \notin ColumnNames(tbls[DictGet(tbls, fk[2])].value)
    THEN <<Finding("Foreign key column '" \o fk[1] \o "' in table '" \o name
                     \o "' references non-existent column '" \o fk[3]
                     \o "' in table '" \o fk[2] \o "'.",
                   "error", name, 2)>>
    ELSE <<>>

\* lines 82-85, for one foreign key
FkTargetFindings(tbls, name, fk) ==
    IF fk[2] \notin DictKeys(tbls)
    THEN <<Finding("Foreign key column '" \o fk[1] \o "' in table '" \o name
                     \o "' references non-existent table '" \o fk[2] \o "'.",
                   "error", name, 2)>>
    ELSE IF fk[3] \notin ColumnNames(tbls[DictGet(tbls, fk[2])].value)
    THEN <<Finding("Foreign key column '" \o fk[1] \o "' in table '" \o name
                     \o "' references non-existent column '" \o fk[3]
                     \o "' in table '" \o fk[2] \o "'.",
                   "error", name, 2)>>
    ELSE <<>>

\* line 81: for fk_column, ref_table, ref_column in foreign_keys
RECURSIVE FkLoopFindings(_, _, _, _)
FkLoopFindings(tbls, name, fks, k) ==
    IF k > Len(fks) THEN <<>>
    ELSE FkTargetFindings(tbls, name, fks[k]) \o FkLoopFindings(tbls, name, fks, k + 1)

\* lines 74-85
RelationshipFindings(tbls, name, info) ==
    IF info.foreign_keys = <<>>
    THEN ImplicitFindings(name, info)
    ELSE FkLoopFindings(tbls, name, info.foreign_keys, 1)

\* IndexFinding with the foreign-key columns forgotten: only the primary key
\* column is looked at.
IndexFindingPrimaryOnly(name, info, col) ==
    IF /\ info.primary_key # <<>> /\ col.name = info.primary_key[1]
       /\ ~Contains(Upper(col.constraints), "INDEX")
    THEN <<Finding("Key column '" \o col.name \o "' in table '" \o name
                     \o "' is not indexed.",
                   "warning", name, 4)>>
    ELSE <<>>

\* lines 88-90, for one column
IndexFinding(name, info, col) ==
    IF /\ \/ (info.primary_key # <<>> /\ col.name = info.primary_key[1])
          \/ col.name \in FkColumns(info)
       /\ ~Contains(Upper(col.constraints), "INDEX")
    THEN <<Finding("Key column '" \o col.name \o "' in table '" \o name
                     \o "' is not indexed.",
                   "warning", name, 4)>>
    ELSE <<>>

\* line 87: for col in table_info['columns']
RECURSIVE IndexFindings(_, _, _)
IndexFindings(name, info, k) ==
    IF k > Len(info.columns) THEN <<>>
    ELSE IndexFinding(name, info, info.columns[k]) \o IndexFindings(name, info, k + 1)

\* lines 92-95
CardinalityFindings(name, info) ==
    IF /\ Len(info.foreign_keys) > 1
       /\ Truthy(info.primary_key)
       /\ info.primary_key[1] \notin FkColumns(info)
    THEN <<Finding("Table '" \o name \o "' may have a cardinality issue: it has multiple foreign keys but the primary key is not a composite of these foreign keys. This could be a many-to-many relationship incorrectly modeled as one-to-many.",
                   "warning", name, 6)>>
    ELSE <<>>

\* lines 97-101
ShapeFindings(name, info) ==
    IF Len(info.foreign_keys) = 1
    THEN <<Finding("Table '" \o name \o "' seems to have a one-to-many relationship with table '"
                     \o info.foreign_keys[1][2] \o "'.",
                   "info", name, 6)>>
    ELSE IF Len(info.foreign_keys) > 1
    THEN <<Finding("Table '" \o name \o "' may have a many-to-many relationship or an incorrect FK setup.",
                   "warning", name, 6)>>
    ELSE <<>>

\* TableFindings with the index check placed before the primary key check.
TableFindingsIndexFirst(tbls, i) ==
    LET name == tbls[i].key
        info == tbls[i].value
    IN IndexFindings(name, info, 1)
       \o MissingPkFindings(name, info)
       \o RelationshipFindings(tbls, name, info)
       \o CardinalityFindings(name, info)
       \o ShapeFindings(name, info)

\* The body of the loop of analyze_tables for the table at index i (lines 68-101).
TableFindings(tbls, i) ==
    LET name == tbls[i].key
        info == tbls[i].value
    IN MissingPkFindings(name, info)
       \o RelationshipFindings(tbls, name, info)
       \o IndexFindings(name, info, 1)
       \o CardinalityFindings(name, info)
       \o ShapeFindings(name, info)

\* analyze_tables as a whole
RECURSIVE AnalyzeFrom(_, _)
AnalyzeFrom(tbls, i) ==
    IF i > Len(tbls) THEN <<>> ELSE TableFindings(tbls, i) \o AnalyzeFrom(tbls, i + 1)
analyze_tables(tbls) == AnalyzeFrom(tbls, 1)

(***************************************************************************)
(* ddl_validator_v2.py: SQLSchemaAnalyzer.  None is the empty tuple and a  *)
(* string x is <<x>> in references_table and references_column.            *)
(***************************************************************************)
\* str.split(): the maximal runs of characters that are not whitespace
RECURSIVE SplitFrom(_, _)
SplitFrom(s, from) ==
    LET p == FirstOf({j \in from..Len(s) : SubSeq(s, j, j) \notin SpaceChars})
    IN IF p = 0 THEN <<>>
       ELSE LET e == SkipSet(s, p, CharsOf(s) \ SpaceChars)
            IN <<SubSeq(s, p, e - 1)>> \o SplitFrom(s, e)

\* ParseConstraints that keeps the constraint text in one piece.
ParseConstraintsUnsplit(constraints) ==
    IF Strip(constraints) = "" THEN <<>> ELSE <<Strip(constraints)>>

\* _parse_constraints (lines 86-89)
ParseConstraints(constraints) == SplitFrom(constraints, 1)

\* str.split(','): the pieces between the commas, empty ones kept
RECURSIVE SplitCommaFrom(_, _)
SplitCommaFrom(s, from) ==
    LET c == Find(s, ",", from)
    IN IF c = 0 THEN <<SubSeq(s, from, Len(s))>>
       ELSE <<SubSeq(s, from, c - 1)>> \o SplitCommaFrom(s, c + 1)

\* re.search(r'SELECT (\w+)', create_statement, re.IGNORECASE): <<>> or <<group 1>>
TableNameMatch(stmt) ==
    LET u == Upper(stmt)
        k == FirstOf({j \in 1..Len(stmt) :
                        /\ StartsWithAt(u, j, "SELECT ")
                        /\ At(stmt, j + Len("SELECT ")) \in WordChars})
    IN IF k = 0 THEN <<>>
       ELSE LET n == k + Len("SELECT ")
            IN <<SubSeq(stmt, n, SkipSet(stmt, n, WordChars) - 1)>>

NoColumnDef == [ok |-> FALSE, name |-> "", data_type |-> "", constraints |-> "", end |-> 0]

\* (\w+)\s+([\w()]+)([^,]+)? : the next match of re.findall at or after `from`
RECURSIVE ColumnDefSearch(_, _)
ColumnDefSearch(stmt, from) ==
    LET p == FirstOf({j \in from..Len(stmt) : SubSeq(stmt, j, j) \in WordChars})
    IN IF p = 0 THEN NoColumnDef
       ELSE LET e1 == SkipSet(stmt, p, WordChars)
                e2 == SkipSet(stmt, e1, SpaceChars)
                e3 == SkipSet(stmt, e2, TypeChars)
                q  == SkipSet(stmt, e3, CharsOf(stmt) \ {","})
            IN IF e2 = e1 \/ e3 = e2 THEN ColumnDefSearch(stmt, e1)
               ELSE [ok |-> TRUE,
                     name |-> SubSeq(stmt, p, e1 - 1),
                     data_type |-> SubSeq(stmt, e2, e3 - 1),
                     constraints |-> SubSeq(stmt, e3, q - 1),
                     end |-> q]

\* re.search(r'REFERENCES\s+(\w+)\s*\((\w+)\)', constraints, re.IGNORECASE),
\* tried at k, where the literal starts
RefMatchAt(c, k) ==
    LET s1 == k + Len("REFERENCES")
        s2 == SkipSet(c, s1, SpaceChars)
        w  == SkipSet(c, s2, WordChars)
        p  == SkipSet(c, w, SpaceChars)
        w2 == SkipSet(c, p + 1, WordChars)
    IN IF s2 > s1 /\ w > s2 /\ At(c, p) = "(" /\ w2 > p + 1 /\ At(c, w2) = ")"
       THEN [ok |-> TRUE, table |-> SubSeq(c, s2, w - 1), column |-> SubSeq(c, p + 1, w2 - 1)]
       ELSE [ok |-> FALSE, table |-> "", column |-> ""]

RefSearch(c) ==
    LET u == Upper(c)
        k == FirstOf({j \in 1..Len(c) : StartsWithAt(u, j, "REFERENCES") /\ RefMatchAt(c, j).ok})
    IN IF k = 0 THEN [ok |-> FALSE, table |-> "", column |-> ""] ELSE RefMatchAt(c, k)

\* any(lit in c.upper() for c in constraints_list)
AnyContains(constraints_list, lit) ==
    \E i \in 1..Len(constraints_list) : Contains(Upper(constraints_list[i]), lit)

\* lines 50-73: the Column built from one match of column_defs
MakeColumn(m) ==
    LET constraints_list == ParseConstraints(m.constraints)
        is_primary_key == AnyContains(constraints_list, "PRIMARY KEY")
        is_foreign_key == AnyContains(constraints_list, "FOREIGN KEY")
        ref_match == RefSearch(m.constraints)
        found == is_foreign_key /\ ref_match.ok
    IN [name |-> Lower(m.name),
        data_type |-> m.data_type,
        constraints |-> constraints_list,
        is_primary_key |-> is_primary_key,
        is_foreign_key |-> is_foreign_key,
        references_table |-> IF found THEN <<Lower(ref_match.table)>> ELSE <<>>,
        references_column |-> IF found THEN <<Lower(ref_match.column)>> ELSE <<>>]

\* for col_name, data_type, constraints in column_defs (lines 49-76)
RECURSIVE ColumnDefLoop(_, _, _)
ColumnDefLoop(stmt, from, acc) ==
    LET m == ColumnDefSearch(stmt, from)
    IN IF ~m.ok THEN acc
       ELSE LET col == MakeColumn(m)
            IN ColumnDefLoop(stmt, m.end,
                   [columns |-> DictSet(acc.columns, col.name, col),
                    primary_keys |-> IF col.is_primary_key
                                     THEN Append(acc.primary_keys, col.name)
                                     ELSE acc.primary_keys])

\* re.search(r'PRIMARY KEY\s*\(([^)]+)\)', create_statement, re.IGNORECASE)
PkClauseSearch(stmt) ==
    LET u == Upper(stmt)
        Open(j) == SkipSet(stmt, j + Len("PRIMARY KEY"), SpaceChars)
        Close(j) == Find(stmt, ")", Open(j) + 1)
        k == FirstOf({j \in 1..Len(stmt) :
                        /\ StartsWithAt(u, j, "PRIMARY KEY")
                        /\ At(stmt, Open(j)) = "("
                        /\ Close(j) > Open(j) + 1})
    IN IF k = 0 THEN NoGroup
       ELSE [ok |-> TRUE, group |-> SubSeq(stmt, Open(k) + 1, Close(k) - 1)]

\* [col.strip().lower() for col in pk_match.group(1).split(',')]
RECURSIVE StripLowerAll(_, _)
StripLowerAll(parts, i) ==
    IF i > Len(parts) THEN <<>>
    ELSE <<Lower(Strip(parts[i]))>> \o StripLowerAll(parts, i + 1)

\* lines 78-82: the key after the table-level clause
ExtendPrimaryKeys(stmt, primary_keys) ==
    LET pk_match == PkClauseSearch(stmt)
    IN IF pk_match.ok
       THEN primary_keys \o StripLowerAll(SplitCommaFrom(pk_match.group, 1), 1)
       ELSE primary_keys

\* _parse_create_table (lines 36-84): self.tables after the call
ParseCreateTable(tbls, stmt) ==
    LET table_name_match == TableNameMatch(stmt)
    IN IF table_name_match = <<>> THEN tbls
       ELSE LET table_name == Lower(table_name_match[1])
                cols == ColumnDefLoop(stmt, 1, [columns |-> <<>>, primary_keys |-> <<>>])
            IN DictSet(tbls, table_name,
                   [name |-> table_name,
                    columns |-> cols.columns,
                    primary_keys |-> ExtendPrimaryKeys(stmt, cols.primary_keys)])

\* sqlparse.split (line 29): the statements of the text, each up to and with
\* its semicolon, stripped, the empty ones left out
RECURSIVE SqlSplit(_, _)
SqlSplit(text, from) ==
    LET c == Find(text, ";", from)
        piece == Strip(SubSeq(text, from, IF c = 0 THEN Len(text) ELSE c))
        rest == IF c = 0 THEN <<>> ELSE SqlSplit(text, c + 1)
    IN IF piece = "" THEN rest ELSE <<piece>> \o rest

\* sqlparse.parse(statement)[0].get_type() == 'CREATE' (lines 32-33): the
\* first word of the statement is the keyword CREATE
IsCreate(stmt) == Upper(SubSeq(stmt, 1, SkipSet(stmt, 1, WordChars) - 1)) = "CREATE"

\* One pass of the loop of parse_schema (lines 31-34)
ParseStatement(tbls, stmt) == IF IsCreate(stmt) THEN ParseCreateTable(tbls, stmt) ELSE tbls

(***************************************************************************)
(* SQLSchemaAnalyzer.analyze.  self.errors holds plain strings; `table`    *)
(* and `rule` record the table and the check that appended each            *)
(* (1 _check_primary_key, 2 _check_foreign_keys,                           *)
(* 5 _check_naming_consistency).                                           *)
(***************************************************************************)
ErrorOf(message, table, rule) == [message |-> message, table |-> table, rule |-> rule]

\* str() of an Optional[str] inside an f-string
StrOf(opt) == IF opt = <<>> THEN "None" ELSE opt[1]

\* `not x` for an Optional[str]
Falsy(opt) == opt = <<>> \/ opt[1] = ""

\* _check_primary_key (lines 101-103)
CheckPrimaryKey(table) ==
    IF table.primary_keys = <<>>
    THEN <<ErrorOf("Table '" \o table.name \o "' has no PRIMARY KEY defined", table.name, 1)>>
    ELSE <<>>

SeqToSet(q) == {q[i] : i \in 1..Len(q)}

\* _check_foreign_keys (lines 107-117), for one column
CheckForeignKey(tbls, table, item) ==
    LET col_name == item.key
        column == item.value
        prefix == "Foreign key '" \o col_name \o "' in table '" \o table.name \o "' "
    IN IF ~column.is_foreign_key THEN <<>>
       ELSE IF Falsy(column.references_table) \/ Falsy(column.references_column)
       THEN <<ErrorOf(prefix \o "does not properly specify referenced table and column",
                      table.name, 2)>>
       ELSE IF column.references_table[1] \notin DictKeys(tbls)
       THEN <<ErrorOf(prefix \o "references non-existent table '"
                        \o column.references_table[1] \o "'", table.name, 2)>>
       ELSE LET referenced_table == tbls[DictGet(tbls, column.references_table[1])].value
            IN IF column.references_column[1] \notin DictKeys(referenced_table.columns)
               THEN <<ErrorOf(prefix \o "references non-existent column '"
                                \o column.references_column[1] \o "' in table '"
                                \o column.references_table[1] \o "'", table.name, 2)>>
               ELSE IF column.references_column[1] \notin SeqToSet(referenced_table.primary_keys)
               THEN <<ErrorOf(prefix \o "references non-primary key column '"
                                \o column.references_column[1] \o "' in table '"
                                \o column.references_table[1] \o "'", table.name, 2)>>
               ELSE <<>>

\* _check_foreign_keys: for col_name, column in table.columns.items()
RECURSIVE CheckForeignKeys(_, _, _)
CheckForeignKeys(tbls, table, k) ==
    IF k > Len(table.columns) THEN <<>>
    ELSE CheckForeignKey(tbls, table, table.columns[k]) \o CheckForeignKeys(tbls, table, k + 1)

\* _check_naming_consistency (lines 119-123)
RECURSIVE CheckNamingConsistency(_, _)
CheckNamingConsistency(table, k) ==
    IF k > Len(table.columns) THEN <<>>
    ELSE LET col_name == table.columns[k].key
             column == table.columns[k].value
         IN (IF column.is_foreign_key /\ ~EndsWith(col_name, "_id")
             THEN <<ErrorOf("Inconsistent foreign key naming: '" \o col_name
                              \o "' in table '" \o table.name \o "' should be named '"
                              \o StrOf(column.references_table) \o "_id'", table.name, 5)>>
             ELSE <<>>)
            \o CheckNamingConsistency(table, k + 1)

\* The body of the loop of analyze for the table at index i (lines 95-97)
TableErrors(tbls, i) ==
    LET table == tbls[i].value
    IN CheckPrimaryKey(table)
       \o CheckForeignKeys(tbls, table, 1)
       \o CheckNamingConsistency(table, 1)

(***************************************************************************)
(* The input texts.  A text is written from table declarations: a          *)
(* declaration lists the comma-separated segments of a table body, each a  *)
(* column definition (name, type token, inline constraints) or a           *)
(* table-level constraint clause.                                          *)
(***************************************************************************)
Col(name, type, rest) == [kind |-> "column", name |-> name, type |-> type, rest |-> rest]
Clause(text) == [kind |-> "clause", name |-> "", type |-> "", rest |-> text]
Decl(name, style, segments) == [name |-> name, style |-> style, segments |-> segments]

RenderSegment(seg) ==
    IF seg.kind = "column"
    THEN seg.name \o " " \o seg.type \o (IF seg.rest = "" THEN "" ELSE " " \o seg.rest)
    ELSE seg.rest

RECURSIVE RenderSegments(_, _)
RenderSegments(segs, i) ==
    IF i > Len(segs) THEN <<>> ELSE <<RenderSegment(segs[i])>> \o RenderSegments(segs, i + 1)

\* One statement.  "plain": on one line; "lines": a segment per line;
\* "vtab": vertical tabs between the words; "lower": the keywords in lower
\* case; "ctas": followed by AS SELECT <name>.
RenderDecl(d) ==
    LET segs == RenderSegments(d.segments, 1)
    IN IF d.style = "lines"
       THEN "CREATE TABLE " \o d.name \o " (\n  " \o Join(segs, ",\n  ") \o "\n);"
       ELSE IF d.style = "vtab"
       THEN "CREATE TABLE" \o VerticalTab \o d.name \o VerticalTab \o "("
                \o Join(segs, "," \o VerticalTab) \o ");"
       ELSE IF d.style = "lower"
       THEN "create table " \o d.name \o " (" \o Join(segs, ", ") \o ");"
       ELSE IF d.style = "ctas"
       THEN "CREATE TABLE " \o d.name \o " (" \o Join(segs, ", ") \o ") AS SELECT " \o d.name \o ";"
       ELSE "CREATE TABLE " \o d.name \o " (" \o Join(segs, ", ") \o ");"

RECURSIVE RenderDecls(_, _)
RenderDecls(ds, i) ==
    IF i > Len(ds) THEN <<>> ELSE <<RenderDecl(ds[i])>> \o RenderDecls(ds, i + 1)

\* The text of a script: its statements, one per line.
RenderScript(ds) == Join(RenderDecls(ds, 1), "\n")

FkUsers == Clause("FOREIGN KEY(a_id) REFERENCES users(user_id)")
FkOrders == Clause("FOREIGN KEY(b_id) REFERENCES orders(order_id)")

\* The declarations the scripts given to DDL_VALIDATOR.py are made of.
DeclMenu == <<
    Decl("users", "plain", <<Col("user_id", "INT", "PRIMARY KEY"),
                             Col("username", "VARCHAR(50)", "NOT NULL UNIQUE")>>),
    Decl("orders", "plain", <<Col("order_id", "INT", "PRIMARY KEY"),
                              Col("user_id", "INT", ""),
                              Clause("FOREIGN KEY(user_id) REFERENCES users(user_id)")>>),
    Decl("payments", "plain", <<Col("pay_id", "INT", "PRIMARY KEY INDEX"),
                                Col("account", "INT", "index"),
                                Clause("FOREIGN KEY (account) REFERENCES ghost(id)")>>),
    Decl("notes", "lines", <<Col("note_id", "INT", ""),
                             Col("author_id", "INT", "NOT NULL"),
                             Clause("PRIMARY KEY (note_id)"),
                             Clause("FOREIGN KEY (author_id) REFERENCES users (username)")>>),
    Decl("link_a", "plain", <<Col("id", "INT", "PRIMARY KEY"), Col("a_id", "INT", ""),
                              Col("b_id", "INT", ""), FkUsers, FkOrders>>),
    Decl("link_b", "plain", <<Col("a_id", "INT", ""), Col("b_id", "INT", ""),
                              Clause("PRIMARY KEY(a_id, b_id)"), FkUsers, FkOrders>>),
    Decl("link_c", "plain", <<Col("a_id", "INT", ""), Col("b_id", "INT", ""),
                              FkUsers, FkOrders>>),
    Decl("link_d", "plain", <<Col("a_id", "INT", "PRIMARY KEY"), Col("b_id", "INT", ""),
                              FkUsers, FkOrders>>),
    Decl("items", "plain", <<Col("item_id", "INT", "PRIMARY KEY"),
                             Col("price", "DECIMAL(10,2)", "NOT NULL"),
                             Col("label", "VARCHAR(50)", ""),
                             Clause("PRIMARY KEY(item_id)")>>),
    Decl("logs", "plain", <<Col("msg", "TEXT", "")>>),
    Decl("profiles", "plain", <<Col("user_id", "INT", "PRIMARY KEY FOREIGN KEY REFERENCES users(user_id)"),
                                Col("bio", "TEXT", "")>>),
    Decl("users", "plain", <<Col("uid", "INT", "PRIMARY KEY")>>),
    Decl("audit", "lower", <<Col("audit_id", "INT", "PRIMARY KEY")>>),
    Decl("marks", "vtab", <<Col("mark_id", "INT", "NOT" \o VerticalTab \o "NULL"),
                            Col("user_id", "INT", ""),
                            Clause("PRIMARY KEY (" \o VerticalTab \o "mark_id" \o VerticalTab \o ")"),
                            Clause("FOREIGN KEY" \o VerticalTab \o "(user_id) REFERENCES"
                                       \o VerticalTab \o "users (user_id" \o VerticalTab \o ")")>>)
>>

\* The declarations the scripts given to ddl_validator_v2.py are made of.
DeclMenuV2 == <<
    Decl("users", "ctas", <<Col("user_id", "INT", "PRIMARY KEY"),
                            Clause("PRIMARY KEY(user_id)")>>),
    Decl("tags", "ctas", <<Col("a", "INT", ""), Clause("PRIMARY KEY(a, a)")>>),
    Decl("orders", "ctas", <<Col("order_id", "INT", ""),
                             Col("user_id", "INT", "FOREIGN KEY REFERENCES users(user_id)")>>),
    Decl("pets", "ctas", <<Col("pet_id", "INT", "PRIMARY KEY"),
                           Col("owner", "INT", "FOREIGN KEY")>>),
    Decl("orders", "plain", <<Col("order_id", "INT", "PRIMARY KEY")>>),
    Decl("audit", "lower", <<Col("audit_id", "INT", ""), Clause("primary key (audit_id)")>>),
    Decl("marks", "ctas", <<Col("mark_id", "INT", "NOT" \o VerticalTab \o "NULL"),
                            Clause("PRIMARY KEY" \o VerticalTab \o "(" \o VerticalTab \o "mark_id"
                                       \o VerticalTab \o ")")>>)
>>

\* The longest script, in statements.
MaxTables == 2
MaxStatements == 2

\* The sequences of 1 to n declarations of a menu.
ScriptsOf(menu, n) ==
    UNION {{[i \in 1..k |-> menu[f[i]]] : f \in [1..k -> 1..Len(menu)]} : k \in 1..n}

(***************************************************************************)
(* DDL_VALIDATOR.py: main() from extract_table_definitions to the report.  *)
(***************************************************************************)
IdleV1 ==
    /\ ddl_content = "" /\ pc = "idle" /\ pos = 1
    /\ tables = <<>> /\ tidx = 1 /\ report = <<>>

IdleV2 ==
    /\ sql_schema = "" /\ pc2 = "idle" /\ statements = <<>> /\ sidx = 1
    /\ self_tables = <<>> /\ aidx = 1 /\ self_errors = <<>>

Init ==
    /\ declared \in ScriptsOf(DeclMenu, MaxTables)
    /\ ddl_content = RenderScript(declared)
    /\ pc = "extract"
    /\ pos = 1
    /\ tables = <<>>
    /\ tidx = 1
    /\ report = <<>>
    /\ IdleV2

\* One pass of `for table_match in table_pattern.finditer(ddl_content)`
ExtractTable ==
    /\ pc = "extract"
    /\ TableSearch(ddl_content, pos).ok
    /\ LET table_match == TableSearch(ddl_content, pos)
       IN /\ tables' = DictSet(tables, table_match.name, TableInfo(table_match.body))
          /\ pos' = table_match.end
    /\ UNCHANGED <<declared, ddl_content, pc, tidx, report, v2vars>>

\* No further match: return tables, and analyze_tables(tables) starts
ExtractReturn ==
    /\ pc = "extract"
    /\ ~TableSearch(ddl_content, pos).ok
    /\ pc' = "analyze"
    /\ tidx' = 1
    /\ report' = <<>>
    /\ UNCHANGED <<declared, ddl_content, pos, tables, v2vars>>

\* One pass of `for table_name, table_info in tables.items()`
AnalyzeTable ==
    /\ pc = "analyze"
    /\ tidx <= Len(tables)
    /\ report' = report \o TableFindings(tables, tidx)
    /\ tidx' = tidx + 1
    /\ UNCHANGED <<declared, ddl_content, pc, pos, tables, v2vars>>

\* return report
AnalyzeReturn ==
    /\ pc = "analyze"
    /\ tidx > Len(tables)
    /\ pc' = "done"
    /\ UNCHANGED <<declared, ddl_content, pos, tables, tidx, report, v2vars>>

Next == ExtractTable \/ ExtractReturn \/ AnalyzeTable \/ AnalyzeReturn

Spec == Init /\ [][Next]_vars

(***************************************************************************)
(* ddl_validator_v2.py: analyze_sql_schema.                                *)
(***************************************************************************)
InitV2 ==
    /\ declared \in ScriptsOf(DeclMenuV2, MaxStatements)
    /\ sql_schema = RenderScript(declared)
    /\ pc2 = "split"
    /\ statements = <<>>
    /\ sidx = 1
    /\ self_tables = <<>>
    /\ aidx = 1
    /\ self_errors = <<>>
    /\ IdleV1

\* statements = sqlparse.split(sql_schema)
SplitSchema ==
    /\ pc2 = "split"
    /\ statements' = SqlSplit(sql_schema, 1)
    /\ sidx' = 1
    /\ pc2' = "parse"
    /\ UNCHANGED <<declared, sql_schema, self_tables, aidx, self_errors, v1vars>>

\* One pass of `for statement in statements`
ParseSchemaStep ==
    /\ pc2 = "parse"
    /\ sidx <= Len(statements)
    /\ self_tables' = ParseStatement(self_tables, statements[sidx])
    /\ sidx' = sidx + 1
    /\ UNCHANGED <<declared, sql_schema, pc2, statements, aidx, self_errors, v1vars>>

\* parse_schema returns and analyze() starts: self.errors = []
ParseSchemaReturn ==
    /\ pc2 = "parse"
    /\ sidx > Len(statements)
    /\ pc2' = "analyze"
    /\ aidx' = 1
    /\ self_errors' = <<>>
    /\ UNCHANGED <<declared, sql_schema, statements, sidx, self_tables, v1vars>>

\* One pass of `for table_name, table in self.tables.items()`
AnalyzeTableV2 ==
    /\ pc2 = "analyze"
    /\ aidx <= Len(self_tables)
    /\ self_errors' = self_errors \o TableErrors(self_tables, aidx)
    /\ aidx' = aidx + 1
    /\ UNCHANGED <<declared, sql_schema, pc2, statements, sidx, self_tables, v1vars>>

\* return self.errors
AnalyzeReturnV2 ==
    /\ pc2 = "analyze"
    /\ aidx > Len(self_tables)
    /\ pc2' = "done"
    /\ UNCHANGED <<declared, sql_schema, statements, sidx, self_tables, aidx, self_errors, v1vars>>

NextV2 ==
    SplitSchema \/ ParseSchemaStep \/ ParseSchemaReturn \/ AnalyzeTableV2 \/ AnalyzeReturnV2

SpecV2 == InitV2 /\ [][NextV2]_vars

(***************************************************************************)
(* The claims.                                                             *)
(***************************************************************************)
HasFinding(message, severity) ==
    \E i \in 1..Len(report) : report[i].message = message /\ report[i].severity = severity

\* The maximal word at the start of a text.
FirstWord(text) == SubSeq(text, 1, SkipSet(text, 1, WordChars) - 1)

\* The declaration a parsed table comes from: the last one of its name that
\* is written with the keywords the parser looks for.
LastDeclOf(name) ==
    declared[LastOf({i \in 1..Len(declared) :
                        declared[i].name = name /\ declared[i].style # "lower"})]

\* The primary key of a table of `tables`, as a set of names.
PkSet(info) == IF Truthy(info.primary_key) THEN {info.primary_key[1]} ELSE {}

\* "Foreign key column '<col>' in table '<table>' ": how every finding about
\* one foreign key starts.
FkPrefix(name, fk) == "Foreign key column '" \o fk[1] \o "' in table '" \o name \o "' "

ScenarioText ==
    "CREATE TABLE users (user_id INT PRIMARY KEY, username VARCHAR(50) NOT NULL UNIQUE);\nCREATE TABLE orders (order_id INT PRIMARY KEY, user_id INT, FOREIGN KEY(user_id) REFERENCES users(user_id));"

\* C1: for the users/orders script, the report holds the warning that key
\* column user_id of orders is not indexed and the info finding that orders
\* has a one-to-many relationship with users, and no finding of severity
\* error.
C1_ScenarioFindings ==
    (pc = "done" /\ ddl_content = ScenarioText) =>
        /\ HasFinding("Key column 'user_id' in table 'orders' is not indexed.", "warning")
        /\ HasFinding("Table 'orders' seems to have a one-to-many relationship with table 'users'.", "info")
        /\ \A i \in 1..Len(report) : report[i].severity # "error"

C1_Witness ==
    /\ pc = "done"
    /\ ddl_content = ScenarioText
    /\ DictKeys(tables) = {"users", "orders"}
    /\ Len(report) > 0

\* C2: once the analysis has returned, every foreign key whose referenced
\* table is not a key of the schema has its "references non-existent table"
\* finding with severity error, and no finding about that foreign key has
\* severity warning.
C2_AbsentTableIsError ==
    pc = "done" =>
        \A i \in 1..Len(tables) :
            \A k \in 1..Len(tables[i].value.foreign_keys) :
                LET name == tables[i].key
                    fk == tables[i].value.foreign_keys[k]
                IN fk[2] \notin DictKeys(tables) =>
                    /\ HasFinding(FkPrefix(name, fk) \o "references non-existent table '"
                                    \o fk[2] \o "'.", "error")
                    /\ \A j \in 1..Len(report) :
                           StartsWithAt(report[j].message, 1, FkPrefix(name, fk))
                               => report[j].severity = "error"

\* An absent table referenced from the second table of a script, after the
\* findings of the first.
C2_Witness ==
    /\ pc = "done"
    /\ Len(tables) >= 2
    /\ \E k \in 1..Len(tables[2].value.foreign_keys) :
           tables[2].value.foreign_keys[k][2] \notin DictKeys(tables)
    /\ \E j \in 1..Len(report) : report[j].table = tables[1].key

\* C3: in the report, the findings of one table are contiguous, the groups
\* come in the insertion order of the tables, and inside a group the findings
\* come in the order of the rules (1 < 2 < 3 < 4 < 5 < 6).
C3_FindingsOrdered ==
    \A i, j \in 1..Len(report) :
        i < j =>
            LET ti == DictGet(tables, report[i].table)
                tj == DictGet(tables, report[j].table)
            IN ti < tj \/ (ti = tj /\ report[i].rule <= report[j].rule)

C3_Witness ==
    /\ pc = "done"
    /\ \E i, j \in 1..Len(report) : report[i].table # report[j].table
    /\ \E i, j \in 1..Len(report) :
           i < j /\ report[i].table = report[j].table /\ report[i].rule < report[j].rule

\* C4: no table's primary_keys holds a name twice.
C4_PrimaryKeysDeduplicated ==
    \A t \in 1..Len(self_tables) :
        LET pks == self_tables[t].value.primary_keys
        IN \A i, j \in 1..Len(pks) : i # j => pks[i] # pks[j]

\* C5: a declared column whose type token has a parenthesized suffix is
\* parsed to one column that carries the whole token as data_type, and the
\* column parsed after it starts a declared segment.
C5_TypeTokenKept ==
    \A t \in 1..Len(tables) :
        LET segs == LastDeclOf(tables[t].key).segments
            cols == tables[t].value.columns
            starts == {FirstWord(RenderSegment(segs[n])) : n \in 1..Len(segs)}
        IN \A n \in 1..Len(segs) :
               (segs[n].kind = "column" /\ Contains(segs[n].type, "(")) =>
                   \E k \in 1..Len(cols) :
                       /\ cols[k].name = segs[n].name
                       /\ cols[k].data_type = segs[n].type
                       /\ k < Len(cols) => cols[k + 1].name \in starts

CardinalityMessage(name) ==
    "Table '" \o name \o "' may have a cardinality issue: it has multiple foreign keys but the primary key is not a composite of these foreign keys. This could be a many-to-many relationship incorrectly modeled as one-to-many."

\* C6: a table with more than one foreign key gets the cardinality warning
\* exactly when its primary key is not the set of its foreign-key columns.
C6_CardinalityWarning ==
    pc = "done" =>
        \A t \in 1..Len(tables) :
            LET info == tables[t].value
            IN Len(info.foreign_keys) > 1 =>
                   (PkSet(info) # FkColumns(info)
                       <=> HasFinding(CardinalityMessage(tables[t].key), "warning"))

\* C7: a foreign key to an existing column of an existing table gets a
\* "references non-primary key column" warning exactly when that column is
\* not in the primary key of the referenced table.
C7_NonPrimaryKeyWarning ==
    pc = "done" =>
        \A t \in 1..Len(tables) :
            \A k \in 1..Len(tables[t].value.foreign_keys) :
                LET fk == tables[t].value.foreign_keys[k]
                    target == tables[DictGet(tables, fk[2])].value
                IN (fk[2] \in DictKeys(tables) /\ fk[3] \in ColumnNames(target)) =>
                       (fk[3] \notin PkSet(target)
                           <=> \E j \in 1..Len(report) :
                                   /\ report[j].severity = "warning"
                                   /\ StartsWithAt(report[j].message, 1, FkPrefix(tables[t].key, fk))
                                   /\ Contains(report[j].message, "references non-primary key column"))

\* The names a recorded primary key is made of.
PkNames(info) ==
    IF info.primary_key = <<>> THEN {}
    ELSE LET parts == SplitCommaFrom(info.primary_key[1], 1)
         IN {Strip(parts[n]) : n \in 1..Len(parts)}

\* C8: every name of a table's primary key is the name of one of its columns.
C8_PrimaryKeyNamesAreColumns ==
    \A t \in 1..Len(tables) :
        PkNames(tables[t].value) \subseteq ColumnNames(tables[t].value)

Populated(opt) == opt # <<>> /\ opt[1] # ""

\* C9: for every column of every parsed table, is_foreign_key is true
\* exactly when references_table and references_column are both populated
\* with a non-empty name.
C9_ForeignKeyIffReference ==
    \A t \in 1..Len(self_tables) :
        \A c \in 1..Len(self_tables[t].value.columns) :
            LET column == self_tables[t].value.columns[c].value
            IN column.is_foreign_key
                   <=> (Populated(column.references_table) /\ Populated(column.references_column))

\* A column parsed from a definition that carries FOREIGN KEY ... REFERENCES.
C9_Witness ==
    /\ pc2 = "done"
    /\ \E t \in 1..Len(self_tables) :
           \E c \in 1..Len(self_tables[t].value.columns) :
               LET column == self_tables[t].value.columns[c].value
               IN /\ "REFERENCES" \in SeqToSet(column.constraints)
                  /\ "FOREIGN" \in SeqToSet(column.constraints)

\* C10: no column of a parsed table is made from a table-level constraint
\* clause of its declaration: no column is named by the keyword such a clause
\* starts with.
C10_NoColumnFromClause ==
    \A t \in 1..Len(tables) :
        LET segs == LastDeclOf(tables[t].key).segments
        IN \A n \in 1..Len(segs) :
               segs[n].kind = "clause" =>
                   FirstWord(segs[n].rest) \notin ColumnNames(tables[t].value)

====
